---- MODULE Spec2Model ----
(***************************************************************************)
(* Memorial site backend: accounts and sessions, tributes, candles.        *)
(* The storage layer exists in two implementations of IStorage, MemStorage *)
(* and DatabaseStorage; impl says which one the server runs on.  A request *)
(* handler is split into one action per await: what lies between two       *)
(* awaits runs without interruption on the Node event loop.  In MemStorage *)
(* the storage methods run synchronously up to their first await and the   *)
(* awaits on them resume as microtasks, in DatabaseStorage every query is  *)
(* an await of its own that other requests can overtake.                   *)
(***************************************************************************)
EXTENDS Integers, FiniteSets, Sequences, Bags, TLC

\* ---------------------------------------------------------------- bounds
\* Account ids the users id counter may hand out.
MaxUsers == 3
\* Tribute ids the tributes id counter may hand out.
MaxTributes == 1
\* Candle rows held at a time, and the largest candleCount.
MaxCandles == 2
\* Gallery ids the gallery id counter may hand out.
MaxImages == 2

\* Request slots: at most two requests are in flight at a time.
Slots == {1, 2}
\* Session cookies a client may present.
SessionIds == {"s1", "s2", "s3"}

VARIABLES
    impl,            \* "mem" (MemStorage) or "db" (DatabaseStorage)
    serial,          \* TRUE when the clients send one request at a time
    users,           \* id -> [username, password, isAdmin]
    nextUserId,      \* _currentUserId / users.id serial
    tributes,        \* id -> [userId, candleCount]
    nextTributeId,   \* _currentTributeId / tributes.id serial
    candles,         \* bag of candle rows <<userId, tributeId>>
    gallery,         \* id -> [id, order, isFeatured], the id being the row's id field
    nextGalleryId,   \* _currentGalleryId / gallery.id serial
    settings,        \* id -> [key, value]
    nextSettingId,   \* _currentSettingId / settings.id serial
    program,         \* funeral program rows: id -> [id, date, streamLink]
    nextProgramId,   \* funeral_program.id serial
    boot,            \* position of initializeDefaultData, "done" when it has ended
    session,         \* session store: session id -> account id, 0 when none
    atLogin,         \* observer: session id -> the account's isAdmin when it was bound
    req,             \* slot -> the request running in it
    resp,            \* observer: the response sent last, [kind, uid, status]
    hist             \* observer: the last two toggles that ran alone

vars == <<impl, serial, users, nextUserId, tributes, nextTributeId, candles,
          gallery, nextGalleryId, settings, nextSettingId, program, nextProgramId,
          boot, session, atLogin, req, resp, hist>>

storeVars == <<users, nextUserId, tributes, nextTributeId, candles>>

sessVars == <<session, atLogin>>

envVars == <<impl, serial>>

siteVars == <<gallery, nextGalleryId, settings, nextSettingId, program,
              nextProgramId, boot>>

\* ------------------------------------------------------------- passwords
\* scrypt(password, salt, 64): a different value for every (password, salt).
Scrypt(password, salt) == <<"scrypt", password, salt>>

\* A stored password string, as stored.split(".") reads it: [hashed, salt].
\* A string without a "." has no salt part.
NoSalt == "undefined"
PlainText(password) == [hashed |-> <<"text", password, "">>, salt |-> NoSalt]

\* ----------------------------------------------------------------- users
getUser(id) == IF id \in DOMAIN users THEN [id |-> id, isAdmin |-> users[id].isAdmin]
               ELSE [id |-> 0, isAdmin |-> FALSE]

\* --------------------------------------------------------------- requests
\* A request body is a record of the fields it supplies.
NoPatch == [none |-> TRUE]

NoReq == [kind |-> "none", pc |-> "idle", uid |-> 0, adm |-> FALSE, tid |-> 0,
          cnt |-> 0, sid |-> "", username |-> "", password |-> "", isAdmin |-> FALSE,
          userId |-> 0, stored |-> PlainText(""), key |-> "", value |-> "",
          patch |-> NoPatch, seen |-> 0, todo |-> {}, lits |-> <<>>]

\* The last response: route, req.user's id, status and, for a login that
\* passport turned down, the message of the info object the strategy gave.
Response(kind, uid, status) ==
    [kind |-> kind, uid |-> uid, status |-> status, info |-> "", lit |-> <<>>, cnt |-> 0,
     items |-> <<>>]

NoResp == Response("none", 0, 0)

InFlight(r) == req[r].pc # "idle"
Quiet == \A r \in Slots : ~InFlight(r)
OthersQuiet(r) == \A q \in Slots \ {r} : ~InFlight(q)

\* A MemStorage call returns a resolved promise: its continuation is a
\* microtask and runs before the event loop takes up any other request.  The
\* waits for scrypt (hashPassword, comparePasswords) and for a database query
\* give the event loop back.
Microtask(pc) == impl = "mem" /\ pc \notin {"idle", "reg_hash", "log_cmp", "rp_hash"}

Turn(r) == \A q \in Slots \ {r} : ~Microtask(req[q].pc)

\* The request in slot r resumes after the await named pc.
At(r, pc) == req[r].pc = pc /\ Turn(r)

\* A request arrives.  Slots are interchangeable: it takes the lowest free
\* one; serial clients send it after the response to the last one.
FreeSlot(r) ==
    /\ ~InFlight(r)
    /\ Turn(r)
    /\ \A q \in Slots : q < r => InFlight(q)
    /\ serial => Quiet
InFlightKind(k) == {r \in Slots : InFlight(r) /\ req[r].kind = k}


\* passport.session(): req.user is read from storage on every request.
deserializeUser(s) == getUser(session[s])

\* req.isAuthenticated(): the session names an account that storage holds.
isAuthenticated(user) == user.id # 0

\* ---------------------------------------------------------------- candles
\* A candle row's id is read only to delete the row just found, so the rows
\* are kept as a bag of <<userId, tributeId>>: a pair may have several rows.
hasUserLitCandle(userId, tributeId) == BagIn(<<userId, tributeId>>, candles)

getCandles(tributeId) ==
    [p \in {q \in DOMAIN candles : q[2] = tributeId} |-> candles[p]]

PairCandles(userId, tributeId) == CopiesIn(<<userId, tributeId>>, candles)

\* updateTribute(id, {candleCount}): writes only when the tribute still exists.
updateTribute(id, candleCount) ==
    IF id \in DOMAIN tributes
    THEN [tributes EXCEPT ![id].candleCount = candleCount]
    ELSE tributes

\* --------------------------------------------------------------- observer
NoHist == [stage |-> "none", uid |-> 0, tid |-> 0, lit |-> FALSE, cnt |-> 0,
           others |-> EmptyBag]

OtherPairs(userId, tributeId) ==
    [p \in DOMAIN candles \ {<<userId, tributeId>>} |-> candles[p]]

\* A toggle that starts while nothing else runs is remembered with the state
\* it started from; a second one by the same account on the same tribute right
\* after it keeps that state.
HistStart(r, kind, uid, tid) ==
    IF kind = "toggle" /\ OthersQuiet(r) /\ tid \in DOMAIN tributes
    THEN IF hist.stage = "done1" /\ hist.uid = uid /\ hist.tid = tid
         THEN [hist EXCEPT !.stage = "run2"]
         ELSE [stage |-> "run1", uid |-> uid, tid |-> tid,
               lit |-> hasUserLitCandle(uid, tid),
               cnt |-> tributes[tid].candleCount,
               others |-> OtherPairs(uid, tid)]
    ELSE NoHist

HistDone(status) ==
    IF status # 200 \/ hist.stage \notin {"run1", "run2"} THEN NoHist
    ELSE IF hist.stage = "run1" THEN [hist EXCEPT !.stage = "done1"]
    ELSE IF hist.stage = "run2" THEN [hist EXCEPT !.stage = "done2"]
    ELSE hist

\* The body of a 200 response, as far as it is read here.  A candle toggle
\* answers { lit: false, candleCount: tribute.candleCount - 1 } after
\* removeCandle and { lit: true, candleCount: tribute.candleCount + 1 } after
\* addCandle, tribute being the one read at the start of the handler.
Removing(q) == q.pc \in {"rm_del", "rm_get", "rm_upd"}

BodyLit(q) == IF q.kind = "toggle" THEN (q.tid :> ~Removing(q)) ELSE <<>>

BodyCount(q) ==
    IF q.kind = "toggle" THEN IF Removing(q) THEN q.seen - 1 ELSE q.seen + 1
    ELSE 0

\* res.status(status).json(..) ends the request in slot r; uid is req.user's
\* id at that moment.
FinishAs(r, uid, status) ==
    /\ req' = [req EXCEPT ![r] = NoReq]
    /\ resp' = [Response(req[r].kind, uid, status) EXCEPT
                  !.lit = IF status = 200 THEN BodyLit(req[r]) ELSE <<>>,
                  !.cnt = IF status = 200 THEN BodyCount(req[r]) ELSE 0]
    /\ hist' = HistDone(status)

Finish(r, status) == FinishAs(r, req[r].uid, status)

\* if (!user) return res.status(401).json({ message: info?.message || .. })
FinishLogin(r, info) ==
    /\ req' = [req EXCEPT ![r] = NoReq]
    /\ resp' = [Response(req[r].kind, req[r].uid, 401) EXCEPT !.info = info]
    /\ hist' = HistDone(401)

Goto(r, pc) ==
    /\ req' = [req EXCEPT ![r].pc = pc]
    /\ UNCHANGED <<resp, hist>>

\* The middleware chain in front of a session-protected route.
Begin(r, s, kind, tid, first) ==
    /\ FreeSlot(r)
    /\ LET user == deserializeUser(s) IN
       IF isAuthenticated(user)
       THEN /\ req' = [req EXCEPT ![r] = [NoReq EXCEPT !.kind = kind, !.pc = first,
                                            !.uid = user.id, !.adm = user.isAdmin,
                                            !.tid = tid]]
            /\ hist' = HistStart(r, kind, user.id, tid)
            /\ UNCHANGED resp
       ELSE /\ resp' = Response(kind, 0, 401)
            /\ hist' = NoHist
            /\ UNCHANGED req

\* The same in front of a handler that has already read its body into args.
BeginWith(r, s, kind, tid, first, args) ==
    /\ FreeSlot(r)
    /\ LET user == deserializeUser(s) IN
       IF isAuthenticated(user)
       THEN /\ req' = [req EXCEPT ![r] = args @@ [NoReq EXCEPT !.kind = kind, !.pc = first,
                                                   !.uid = user.id, !.adm = user.isAdmin,
                                                   !.tid = tid]]
            /\ hist' = HistStart(r, kind, user.id, tid)
            /\ UNCHANGED resp
       ELSE /\ resp' = Response(kind, 0, 401)
            /\ hist' = NoHist
            /\ UNCHANGED req

\* ------------------------------------------- POST /api/tributes/:id/candle
ToggleCandle(r, s, tid) ==
    /\ Begin(r, s, "toggle", tid, "t_get")
    /\ UNCHANGED <<envVars, siteVars, storeVars, sessVars>>

\* const tribute = await storage.getTributeById(tributeId)
Toggle_getTribute(r) ==
    /\ At(r, "t_get")
    /\ IF req[r].tid \in DOMAIN tributes
       THEN /\ req' = [req EXCEPT ![r].pc = "t_has",
                                  ![r].seen = tributes[req[r].tid].candleCount]
            /\ UNCHANGED <<resp, hist>>
       ELSE Finish(r, 404)
    /\ UNCHANGED <<envVars, siteVars, storeVars, sessVars>>

\* const hasLit = await storage.hasUserLitCandle(userId, tributeId); the
\* branch taken calls removeCandle or addCandle, which run to their first await.
Toggle_hasLit(r) ==
    /\ At(r, "t_has")
    /\ Goto(r, IF hasUserLitCandle(req[r].uid, req[r].tid) THEN "rm_del"
               ELSE IF impl = "db" THEN "add_chk" ELSE "add_ins")
    /\ UNCHANGED <<envVars, siteVars, storeVars, sessVars>>

\* DatabaseStorage.addCandle: const hasCandle = await this.hasUserLitCandle(..)
AddCandle_check(r) ==
    /\ At(r, "add_chk")
    /\ IF hasUserLitCandle(req[r].uid, req[r].tid)
       THEN Finish(r, 200)
       ELSE Goto(r, "add_ins")
    /\ UNCHANGED <<envVars, siteVars, storeVars, sessVars>>

\* db.insert(candles).values(candle) / this._candles.set(id, candle)
InsertCandle(userId, tributeId) == candles (+) SetToBag({<<userId, tributeId>>})

\* The insert.  MemStorage.addCandle looks for an existing candle, inserts and
\* calls getTributeById in one go; DatabaseStorage.addCandle awaits the insert.
AddCandle_insert(r) ==
    /\ At(r, "add_ins")
    /\ (impl = "mem" /\ hasUserLitCandle(req[r].uid, req[r].tid))
         \/ BagCardinality(candles) < MaxCandles
    /\ IF impl = "mem"
       THEN IF hasUserLitCandle(req[r].uid, req[r].tid)
            THEN /\ Finish(r, 200)
                 /\ UNCHANGED candles
            ELSE /\ candles' = InsertCandle(req[r].uid, req[r].tid)
                 /\ IF req[r].tid \in DOMAIN tributes
                    THEN /\ req' = [req EXCEPT ![r].pc = "add_upd",
                                               ![r].cnt = tributes[req[r].tid].candleCount]
                         /\ UNCHANGED <<resp, hist>>
                    ELSE Finish(r, 200)
       ELSE /\ candles' = InsertCandle(req[r].uid, req[r].tid)
            /\ Goto(r, "add_get")
    /\ UNCHANGED <<envVars, siteVars, users, nextUserId, tributes, nextTributeId, sessVars>>

\* DatabaseStorage.addCandle: const tribute = await this.getTributeById(..)
AddCandle_getTribute(r) ==
    /\ At(r, "add_get")
    /\ IF req[r].tid \in DOMAIN tributes
       THEN /\ req' = [req EXCEPT ![r].pc = "add_upd",
                                  ![r].cnt = tributes[req[r].tid].candleCount]
            /\ UNCHANGED <<resp, hist>>
       ELSE Finish(r, 200)
    /\ UNCHANGED <<envVars, siteVars, storeVars, sessVars>>

AddCount(candleCount) == candleCount + 1

\* await this.updateTribute(tribute.id, { candleCount: tribute.candleCount + 1 })
AddCandle_update(r) ==
    /\ At(r, "add_upd")
    /\ req[r].cnt < MaxCandles
    /\ tributes' = updateTribute(req[r].tid, AddCount(req[r].cnt))
    /\ Finish(r, 200)
    /\ UNCHANGED <<envVars, siteVars, users, nextUserId, nextTributeId, candles, sessVars>>

\* The candle rows removeCandle deletes: MemStorage deletes the first candle it
\* finds for the pair, DatabaseStorage every row of the pair.
RemovedCandles(userId, tributeId) ==
    IF PairCandles(userId, tributeId) = 0 THEN EmptyBag
    ELSE IF impl = "mem" THEN SetToBag({<<userId, tributeId>>})
    ELSE [p \in {<<userId, tributeId>>} |-> PairCandles(userId, tributeId)]

\* A removeCandle that would decrement whatever the count is.
countedAlways(candleCount) == TRUE

\* if (tribute && tribute.candleCount > 0): only a positive count is decremented.
counted(candleCount) == candleCount > 0

\* The delete.  MemStorage.removeCandle finds, deletes and calls getTributeById
\* in one go; DatabaseStorage.removeCandle awaits the delete.
RemoveCandle_delete(r) ==
    /\ At(r, "rm_del")
    /\ LET gone == RemovedCandles(req[r].uid, req[r].tid) IN
       /\ candles' = candles (-) gone
       /\ IF gone = EmptyBag
          THEN Finish(r, 200)
          ELSE IF impl = "db"
          THEN Goto(r, "rm_get")
          ELSE IF req[r].tid \in DOMAIN tributes /\ counted(tributes[req[r].tid].candleCount)
          THEN /\ req' = [req EXCEPT ![r].pc = "rm_upd",
                                     ![r].cnt = tributes[req[r].tid].candleCount]
               /\ UNCHANGED <<resp, hist>>
          ELSE Finish(r, 200)
    /\ UNCHANGED <<envVars, siteVars, users, nextUserId, tributes, nextTributeId, sessVars>>

\* DatabaseStorage.removeCandle: const tribute = await this.getTributeById(..)
RemoveCandle_getTribute(r) ==
    /\ At(r, "rm_get")
    /\ IF req[r].tid \in DOMAIN tributes /\ counted(tributes[req[r].tid].candleCount)
       THEN /\ req' = [req EXCEPT ![r].pc = "rm_upd",
                                  ![r].cnt = tributes[req[r].tid].candleCount]
            /\ UNCHANGED <<resp, hist>>
       ELSE Finish(r, 200)
    /\ UNCHANGED <<envVars, siteVars, storeVars, sessVars>>

\* A removeCandle that would leave candleCount as it was.
RemoveCountKept(candleCount) == candleCount

RemoveCount(candleCount) == candleCount - 1

\* await this.updateTribute(tribute.id, { candleCount: tribute.candleCount - 1 })
RemoveCandle_update(r) ==
    /\ At(r, "rm_upd")
    /\ tributes' = updateTribute(req[r].tid, RemoveCount(req[r].cnt))
    /\ Finish(r, 200)
    /\ UNCHANGED <<envVars, siteVars, users, nextUserId, nextTributeId, candles, sessVars>>

\* ------------------------------------------------- POST /api/tributes
\* A text is the sequence of its characters.
Hello == <<"h", "i">>

\* s.trim() (tribute-form.tsx 56, the client's check before it sends).
RECURSIVE TrimStart(_)
TrimStart(text) ==
    IF text # <<>> /\ Head(text) = " " THEN TrimStart(Tail(text)) ELSE text

RECURSIVE TrimEnd(_)
TrimEnd(text) ==
    IF text # <<>> /\ text[Len(text)] = " " THEN TrimEnd(SubSeq(text, 1, Len(text) - 1))
    ELSE text

Trim(text) == TrimEnd(TrimStart(text))

\* The body of the requests of the runs that are not about the body.
PlainBody == [content |-> Hello]

\* insertTributeSchema: tributes' columns userId and content (and the media
\* columns, which no property here reads); content is a text column, so any
\* string passes; parse drops the keys the schema does not pick.
insertTributeSchemaThrows(data) == "content" \notin DOMAIN data

insertTributeSchema(data) ==
    [f \in DOMAIN data \cap {"userId", "content"} |-> data[f]]

\* A handler that would let the body's userId stand.
tributeDataFromBody(body, userId) == body @@ [userId |-> userId]

\* { ...req.body, userId: req.user.id }
tributeData(body, userId) == [userId |-> userId] @@ body

\* POST /api/tributes: the body is parsed before the first await; a ZodError
\* gives 400.  room is the number of tributes the run affords.
CreateTribute(r, s, body, room) ==
    /\ nextTributeId + Cardinality(InFlightKind("create")) <= room
    /\ LET user == deserializeUser(s) IN
       IF isAuthenticated(user) /\ insertTributeSchemaThrows(tributeData(body, user.id))
       THEN /\ FreeSlot(r)
            /\ resp' = Response("create", user.id, 400)
            /\ hist' = NoHist
            /\ UNCHANGED req
       ELSE BeginWith(r, s, "create", 0, "c_ins",
                      [patch |-> insertTributeSchema(tributeData(body, user.id))])
    /\ UNCHANGED <<envVars, siteVars, storeVars, sessVars>>

\* storage.createTribute: { ...insertTribute, id, createdAt, candleCount: 0 }
NewTribute(tribute) == [candleCount |-> 0] @@ tribute

\* A createTribute whose id counter would stay where it is.
tributeIdStuck(id) == id

\* const id = this._currentTributeId++ / a serial column: the next id.
tributeIdAfter(id) == id + 1

CreateTribute_insert(r) ==
    /\ At(r, "c_ins")
    /\ tributes' = (nextTributeId :> NewTribute(req[r].patch)) @@ tributes
    /\ nextTributeId' = tributeIdAfter(nextTributeId)
    /\ Finish(r, 201)
    /\ UNCHANGED <<envVars, siteVars, users, nextUserId, candles, sessVars>>

\* ----------------------------------------------- DELETE /api/tributes/:id
DeleteTribute(r, s, tid) ==
    /\ Begin(r, s, "delete", tid, "d_get")
    /\ UNCHANGED <<envVars, siteVars, storeVars, sessVars>>

\* A handler that would let every authenticated caller delete.
mayDeleteAnyone(tributeUserId, userId, userIsAdmin) == TRUE

\* if (tribute.userId !== req.user.id && !req.user.isAdmin) -> 403
mayDelete(tributeUserId, userId, userIsAdmin) ==
    ~(tributeUserId # userId /\ ~userIsAdmin)

\* const tribute = await storage.getTributeById(id), then the two checks.
Delete_getTribute(r) ==
    /\ At(r, "d_get")
    /\ IF req[r].tid \notin DOMAIN tributes
       THEN Finish(r, 404)
       ELSE IF ~mayDelete(tributes[req[r].tid].userId, req[r].uid, req[r].adm)
       THEN Finish(r, 403)
       ELSE Goto(r, IF impl = "db" THEN "d_cand" ELSE "d_trib")
    /\ UNCHANGED <<envVars, siteVars, storeVars, sessVars>>

\* DatabaseStorage.deleteTribute: await db.delete(candles).where(tributeId = id)
DeleteTribute_candles(r) ==
    /\ At(r, "d_cand")
    /\ candles' = candles (-) getCandles(req[r].tid)
    /\ Goto(r, "d_trib")
    /\ UNCHANGED <<envVars, siteVars, users, nextUserId, tributes, nextTributeId, sessVars>>

\* The candle rows MemStorage.deleteTribute deletes with the tribute: none.
MemDeletedCandles(tributeId) == EmptyBag

\* The tribute row goes: this._tributes.delete(id) / db.delete(tributes).
DeleteTribute_tribute(r) ==
    /\ At(r, "d_trib")
    /\ tributes' = [t \in DOMAIN tributes \ {req[r].tid} |-> tributes[t]]
    /\ candles' = IF impl = "mem" THEN candles (-) MemDeletedCandles(req[r].tid)
                  ELSE candles
    /\ Finish(r, IF req[r].tid \in DOMAIN tributes THEN 200 ELSE 500)
    /\ UNCHANGED <<envVars, siteVars, users, nextUserId, nextTributeId, sessVars>>

\* ------------------------------------------------------------ initial state
AdminPassword == "admin123"

\* The default data: MemStorage's constructor and DatabaseStorage's
\* initializeDefaultData write three settings, one gallery image (featured,
\* order 1) and the funeral program.
DefaultSettings ==
    (1 :> [key |-> "backgroundImage", value |-> "v0"])
    @@ (2 :> [key |-> "tributeImage", value |-> "v0"])
    @@ (3 :> [key |-> "footerMessage", value |-> "v0"])

\* initializeDefaultData has run to its end (MemStorage: the constructor).
BootDone == [pc |-> "done", n |-> 0, tid |-> 0]

DefaultImage == [id |-> 1, order |-> 1, isFeatured |-> TRUE]

DefaultProgram == [id |-> 1, date |-> "d0", streamLink |-> "l0"]

\* The site content once the default data has been written.
SeededSite ==
    /\ gallery = (1 :> DefaultImage)
    /\ nextGalleryId = 2
    /\ settings = DefaultSettings
    /\ nextSettingId = 4
    /\ program = (1 :> DefaultProgram)
    /\ nextProgramId = 2
    /\ boot = BootDone

\* MemStorage's constructor seeds account 1, the administrator, with the
\* password as given; a database holds accounts whose passwords were hashed.
SeedUsers(i) ==
    IF i = "mem"
    THEN (1 :> [username |-> "admin", password |-> PlainText(AdminPassword),
                isAdmin |-> TRUE])
    ELSE (1 :> [username |-> "admin",
                password |-> [hashed |-> Scrypt(AdminPassword, "salt1"), salt |-> "salt1"],
                isAdmin |-> TRUE])

Member(name) == [username |-> name,
                 password |-> [hashed |-> Scrypt("pw1", "salt1"), salt |-> "salt1"],
                 isAdmin |-> FALSE]

\* Two members have registered (accounts 2 and 3) and hold sessions s2 and s3.
\* The administrator holds session s1 in the runs with serial clients, on the
\* database only: MemStorage's seeded administrator cannot log in.
InitTributes(oneAtATime) ==
    /\ impl \in {"mem", "db"}
    /\ serial = oneAtATime
    /\ users = SeedUsers(impl) @@ (2 :> Member("ann")) @@ (3 :> Member("bob"))
    /\ nextUserId = 4
    /\ tributes = <<>>
    /\ nextTributeId = 1
    /\ candles = EmptyBag
    /\ SeededSite
    /\ session = [s \in SessionIds |->
                    CASE s = "s1" -> IF impl = "db" /\ oneAtATime THEN 1 ELSE 0
                      [] s = "s2" -> 2
                      [] s = "s3" -> 3
                      [] OTHER -> 0]
    /\ atLogin = [s \in SessionIds |-> session[s] = 1]
    /\ req = [r \in Slots |-> NoReq]
    /\ resp = NoResp
    /\ hist = NoHist

TributeIds == 1..MaxTributes

TributeStep(r) ==
    \/ Toggle_getTribute(r)
    \/ Toggle_hasLit(r)
    \/ AddCandle_check(r)
    \/ AddCandle_insert(r)
    \/ AddCandle_getTribute(r)
    \/ AddCandle_update(r)
    \/ RemoveCandle_delete(r)
    \/ RemoveCandle_getTribute(r)
    \/ RemoveCandle_update(r)
    \/ CreateTribute_insert(r)
    \/ Delete_getTribute(r)
    \/ DeleteTribute_candles(r)
    \/ DeleteTribute_tribute(r)

TributeStart(r) ==
    \E s \in SessionIds :
        \/ CreateTribute(r, s, PlainBody, MaxTributes)
        \/ \E tid \in TributeIds : ToggleCandle(r, s, tid)
        \/ \E tid \in TributeIds : DeleteTribute(r, s, tid)

\* Requests arrive at any time and interleave at their awaits.
Next == \E r \in Slots : TributeStart(r) \/ TributeStep(r)

\* Requests arrive at any time; the administrator is not logged in.
Init == InitTributes(FALSE)

Spec == Init /\ [][Next]_vars

\* Requests run one at a time: none starts before the last one has finished.
InitSeq == InitTributes(TRUE)

SpecSeq == InitSeq /\ [][Next]_vars

\* ------------------------------------------------------ POST /api/register
Usernames == {"admin", "ann", "bob"}
\* Passwords a login may try, and those new accounts register with.
Passwords == {AdminPassword, "pw1"}
NewPasswords == {"pw1"}
\* randomBytes(16): the salt a new hash draws.  The accounts that exist at the
\* start were hashed under "salt1"; salts matter only through equality.
Salts == {"salt2"}
\* Session cookies used by the clients of the account routes.
AuthSessions == {"s1", "s2"}

UsersNamed(username) == {i \in DOMAIN users : users[i].username = username}

\* getUserByUsername: the first account found with that username, 0 when none.
getUserByUsername(username) ==
    IF UsersNamed(username) = {} THEN 0
    ELSE CHOOSE i \in UsersNamed(username) : \A j \in UsersNamed(username) : i <= j

\* insertUserSchema.parse(req.body): the body may carry an isAdmin of its own.
Register(r, s, username, password, payloadIsAdmin) ==
    /\ FreeSlot(r)
    /\ nextUserId + Cardinality(InFlightKind("register")) <= MaxUsers
    /\ req' = [req EXCEPT ![r] = [NoReq EXCEPT !.kind = "register", !.pc = "reg_get",
                                         !.sid = s, !.username = username,
                                         !.password = password,
                                         !.isAdmin = payloadIsAdmin]]
    /\ UNCHANGED <<envVars, siteVars, storeVars, sessVars, resp, hist>>

\* const existingUser = await storage.getUserByUsername(userData.username)
Register_getUser(r) ==
    /\ At(r, "reg_get")
    /\ IF getUserByUsername(req[r].username) # 0
       THEN Finish(r, 400)
       ELSE Goto(r, "reg_hash")
    /\ UNCHANGED <<envVars, siteVars, storeVars, sessVars>>

\* hashPassword: `${scrypt(password, salt, 64)}.${salt}` with a fresh salt.
hashPassword(password, salt) == [hashed |-> Scrypt(password, salt), salt |-> salt]

\* const hashedPassword = await hashPassword(userData.password)
Register_hash(r) ==
    /\ At(r, "reg_hash")
    /\ \E salt \in Salts :
         req' = [req EXCEPT ![r].pc = "reg_ins",
                            ![r].stored = hashPassword(req[r].password, salt)]
    /\ UNCHANGED <<envVars, siteVars, storeVars, sessVars, resp, hist>>

\* A register that would pass the body's isAdmin on to createUser.
createdIsAdminFromBody(payloadIsAdmin) == payloadIsAdmin

\* createUser({...userData, password: hashedPassword, isAdmin: false})
createdIsAdmin(payloadIsAdmin) == FALSE

\* createUser: users.username is unique in the database, where the insert of
\* a taken username throws; MemStorage's map takes any record.
createUserThrows(username) == impl = "db" /\ UsersNamed(username) # {}

\* const user = await storage.createUser(..); req.login(user); 201, or the
\* catch block's 500.
Register_createUser(r) ==
    /\ At(r, "reg_ins")
    /\ IF createUserThrows(req[r].username)
       THEN /\ Finish(r, 500)
            /\ UNCHANGED <<users, nextUserId, sessVars>>
       ELSE /\ users' = users @@ (nextUserId :>
                          [username |-> req[r].username,
                           password |-> req[r].stored,
                           isAdmin |-> createdIsAdmin(req[r].isAdmin)])
            /\ nextUserId' = nextUserId + 1
            /\ session' = [session EXCEPT ![req[r].sid] = nextUserId]
            /\ atLogin' = [atLogin EXCEPT ![req[r].sid] = createdIsAdmin(req[r].isAdmin)]
            /\ FinishAs(r, nextUserId, 201)
    /\ UNCHANGED <<envVars, siteVars, tributes, nextTributeId, candles>>

\* --------------------------------------------------------- POST /api/login
Login(r, s, username, password) ==
    /\ FreeSlot(r)
    /\ req' = [req EXCEPT ![r] = [NoReq EXCEPT !.kind = "login", !.pc = "log_get",
                                         !.sid = s, !.username = username,
                                         !.password = password]]
    /\ UNCHANGED <<envVars, siteVars, storeVars, sessVars, resp, hist>>

\* LocalStrategy: const user = await storage.getUserByUsername(username)
Login_getUser(r) ==
    /\ At(r, "log_get")
    /\ LET id == getUserByUsername(req[r].username) IN
       IF id = 0
       THEN FinishLogin(r, "Invalid username")
       ELSE /\ req' = [req EXCEPT ![r].pc = "log_cmp", ![r].userId = id,
                                  ![r].stored = users[id].password]
            /\ UNCHANGED <<resp, hist>>
    /\ UNCHANGED <<envVars, siteVars, storeVars, sessVars>>

\* comparePasswords: scrypt of the supplied password under the stored salt
\* equals the stored hash.
comparePasswords(supplied, stored) == Scrypt(supplied, stored.salt) = stored.hashed

\* const isValid = await comparePasswords(password, user.password): scrypt
\* throws on a stored password without a salt part; req.login binds the session.
Login_compare(r) ==
    /\ At(r, "log_cmp")
    /\ IF req[r].stored.salt = NoSalt
       THEN Finish(r, 500) /\ UNCHANGED sessVars
       ELSE IF ~comparePasswords(req[r].password, req[r].stored)
       THEN FinishLogin(r, "Invalid password") /\ UNCHANGED sessVars
       ELSE /\ session' = [session EXCEPT ![req[r].sid] = req[r].userId]
            /\ atLogin' = [atLogin EXCEPT ![req[r].sid] = users[req[r].userId].isAdmin]
            /\ FinishAs(r, req[r].userId, 200)
    /\ UNCHANGED <<envVars, siteVars, storeVars>>

\* -------------------------------------------------------- POST /api/logout
\* A logout that would answer and leave the session as it is.
LogoutInNameOnly(r, s) ==
    /\ FreeSlot(r)
    /\ resp' = Response("logout", deserializeUser(s).id, 200)
    /\ UNCHANGED <<envVars, siteVars, storeVars, sessVars, req, hist>>

\* req.logout(): the session names no account any more.
Logout(r, s) ==
    /\ FreeSlot(r)
    /\ session' = [session EXCEPT ![s] = 0]
    /\ atLogin' = [atLogin EXCEPT ![s] = FALSE]
    /\ resp' = Response("logout", deserializeUser(s).id, 200)
    /\ UNCHANGED <<envVars, siteVars, storeVars, req, hist>>

\* -------------------------------------------------- PUT /api/users/:id/role
\* A middleware that would admit every authenticated account.
isAdminAnyAccount(user) == isAuthenticated(user)

\* The isAdmin middleware: req.isAuthenticated() && req.user.isAdmin.
isAdmin(user) == isAuthenticated(user) /\ user.isAdmin

\* A handler without the guard on the caller's own flag.
selfDemotionAllowed(callerId, userId, makeAdmin) == FALSE

\* if (req.user.id === userId && !isAdmin)
selfDemotion(callerId, userId, makeAdmin) == callerId = userId /\ ~makeAdmin

ChangeRole(r, s, userId, makeAdmin) ==
    /\ FreeSlot(r)
    /\ LET user == deserializeUser(s) IN
       IF ~isAdmin(user) \/ selfDemotion(user.id, userId, makeAdmin)
       THEN /\ resp' = Response("role", user.id, 403)
            /\ UNCHANGED req
       ELSE /\ req' = [req EXCEPT ![r] = [NoReq EXCEPT !.kind = "role", !.pc = "role_upd",
                                                !.sid = s, !.uid = user.id,
                                                !.adm = user.isAdmin,
                                                !.userId = userId,
                                                !.isAdmin = makeAdmin]]
            /\ UNCHANGED resp
    /\ UNCHANGED <<envVars, siteVars, storeVars, sessVars, hist>>

\* const updatedUser = await dbStorage.updateUser(userId, { isAdmin })
ChangeRole_updateUser(r) ==
    /\ At(r, "role_upd")
    /\ IF req[r].userId \in DOMAIN users
       THEN /\ users' = [users EXCEPT ![req[r].userId].isAdmin = req[r].isAdmin]
            /\ Finish(r, 200)
       ELSE /\ Finish(r, 404)
            /\ UNCHANGED users
    /\ UNCHANGED <<envVars, siteVars, nextUserId, tributes, nextTributeId, candles, sessVars>>

\* ---------------------------------------------------- admin-only routes
\* f without the entry of key k.
Without(f, k) == [x \in DOMAIN f \ {k} |-> f[x]]

\* A route without the middleware: the handler starts for any caller.
BeginAnyone(r, s, kind, first, args) ==
    /\ FreeSlot(r)
    /\ LET user == deserializeUser(s) IN
       req' = [req EXCEPT ![r] = [kind |-> kind, pc |-> first, uid |-> user.id,
                                   adm |-> user.isAdmin, sid |-> s] @@ args @@ NoReq]
    /\ UNCHANGED <<resp, hist>>

\* The isAdmin middleware in front of an admin-only route: 403 unless the
\* session's account is an administrator, else the handler starts with args.
BeginAdmin(r, s, kind, first, args) ==
    /\ FreeSlot(r)
    /\ LET user == deserializeUser(s) IN
       IF ~isAdmin(user)
       THEN /\ resp' = Response(kind, user.id, 403)
            /\ UNCHANGED req
       ELSE /\ req' = [req EXCEPT ![r] = [kind |-> kind, pc |-> first, uid |-> user.id,
                                            adm |-> user.isAdmin, sid |-> s] @@ args @@ NoReq]
            /\ UNCHANGED resp
    /\ UNCHANGED hist

\* A handler that answers before its first await.
Reject(kind, uid, status) ==
    /\ resp' = Response(kind, uid, status)
    /\ UNCHANGED <<req, hist>>

\* ------------------------------------------------------- gallery routes
ImageIds == 1..MaxImages

\* POST /api/gallery: insertGallerySchema.parse(req.body) throws on a body
\* that is no image data (400).
CreateImage(r, s, image, valid) ==
    /\ nextGalleryId + Cardinality(InFlightKind("g_create") \cup InFlightKind("g_upload"))
          <= MaxImages
    /\ IF isAdmin(deserializeUser(s)) /\ ~valid
       THEN FreeSlot(r) /\ Reject("g_create", deserializeUser(s).id, 400)
       ELSE BeginAdmin(r, s, "g_create", "g_ins", [patch |-> image])
    /\ UNCHANGED <<envVars, siteVars, storeVars, sessVars>>

\* POST /api/gallery/upload: 400 without a file, else the image data is built
\* from the form fields.
UploadImage(r, s, image, hasFile) ==
    /\ nextGalleryId + Cardinality(InFlightKind("g_create") \cup InFlightKind("g_upload"))
          <= MaxImages
    /\ IF isAdmin(deserializeUser(s)) /\ ~hasFile
       THEN FreeSlot(r) /\ Reject("g_upload", deserializeUser(s).id, 400)
       ELSE BeginAdmin(r, s, "g_upload", "g_ins", [patch |-> image])
    /\ UNCHANGED <<envVars, siteVars, storeVars, sessVars>>

\* createGalleryImage: { ...insertImage, id } / insert .. returning.
NewImage(image, id) == [id |-> id] @@ image

\* const image = await storage.createGalleryImage(imageData)
Gallery_insert(r) ==
    /\ At(r, "g_ins")
    /\ gallery' = gallery @@ (nextGalleryId :> NewImage(req[r].patch, nextGalleryId))
    /\ nextGalleryId' = nextGalleryId + 1
    /\ Finish(r, 201)
    /\ UNCHANGED <<envVars, storeVars, sessVars, settings, nextSettingId, program,
                   nextProgramId, boot>>

\* PUT /api/gallery/:id: the body goes to storage as it is.
UpdateImage(r, s, id, patch) ==
    /\ BeginAdmin(r, s, "g_update", "g_upd", [userId |-> id, patch |-> patch])
    /\ UNCHANGED <<envVars, siteVars, storeVars, sessVars>>

\* updateGalleryImage.  MemStorage stores { ...image, ...imageData } under the
\* same map key; the database sets the given columns of the row with that id,
\* and fails (undefined) when the new id is another row's.
updateGalleryImage(id, patch) ==
    IF id \notin DOMAIN gallery THEN gallery
    ELSE LET image == patch @@ gallery[id] IN
         IF impl = "mem" THEN [gallery EXCEPT ![id] = image]
         ELSE IF image.id = id THEN [gallery EXCEPT ![id] = image]
         ELSE IF image.id \in DOMAIN gallery THEN gallery
         ELSE Without(gallery, id) @@ (image.id :> image)

updateGalleryImageFound(id, patch) ==
    /\ id \in DOMAIN gallery
    /\ impl = "db" => LET image == patch @@ gallery[id] IN
                      image.id = id \/ image.id \notin DOMAIN gallery

\* const image = await storage.updateGalleryImage(id, imageData)
Gallery_update(r) ==
    /\ At(r, "g_upd")
    /\ gallery' = updateGalleryImage(req[r].userId, req[r].patch)
    /\ Finish(r, IF updateGalleryImageFound(req[r].userId, req[r].patch) THEN 200 ELSE 404)
    /\ UNCHANGED <<envVars, storeVars, sessVars, nextGalleryId, settings, nextSettingId,
                   program, nextProgramId, boot>>

\* DELETE /api/gallery/:id
DeleteImage(r, s, id) ==
    /\ BeginAdmin(r, s, "g_delete", "g_del", [userId |-> id])
    /\ UNCHANGED <<envVars, siteVars, storeVars, sessVars>>

\* const deleted = await storage.deleteGalleryImage(id)
Gallery_delete(r) ==
    /\ At(r, "g_del")
    /\ gallery' = Without(gallery, req[r].userId)
    /\ Finish(r, IF req[r].userId \in DOMAIN gallery THEN 200 ELSE 404)
    /\ UNCHANGED <<envVars, storeVars, sessVars, nextGalleryId, settings, nextSettingId,
                   program, nextProgramId, boot>>

\* ------------------------------------------------------ settings routes
SettingKeys == {"tributeImage", "siteTitle"}
SettingValues == {"v1", "v2"}

SettingRows(key) == {i \in DOMAIN settings : settings[i].key = key}

\* getSetting: result[0] / _settings.get(key); 0 when there is none.
getSetting(key) ==
    IF SettingRows(key) = {} THEN 0 ELSE CHOOSE i \in SettingRows(key) : TRUE

\* upsertSetting after its look-up found row `found`: the update sets the
\* value of the rows with that key; the insert of a key that has a row by now
\* breaks settings.key's unique constraint and throws.
upsertSettingThrows(key, found) == impl = "db" /\ found = 0 /\ SettingRows(key) # {}

\* An upsert that would add a row every time.
upsertSettingAppend(key, value, found) ==
    settings @@ (nextSettingId :> [key |-> key, value |-> value])

upsertSetting(key, value, found) ==
    IF found # 0
    THEN [i \in DOMAIN settings |->
            IF settings[i].key = key THEN [settings[i] EXCEPT !.value = value]
            ELSE settings[i]]
    ELSE IF upsertSettingThrows(key, found) THEN settings
    ELSE settings @@ (nextSettingId :> [key |-> key, value |-> value])

upsertSettingNextId(key, found) ==
    IF found = 0 /\ ~upsertSettingThrows(key, found) THEN nextSettingId + 1
    ELSE nextSettingId

\* PUT /api/settings/:key: 400 when the body has no value.
UpsertSetting(r, s, key, value) ==
    /\ IF isAdmin(deserializeUser(s)) /\ value = ""
       THEN FreeSlot(r) /\ Reject("s_upsert", deserializeUser(s).id, 400)
       ELSE BeginAdmin(r, s, "s_upsert", "set_get", [key |-> key, value |-> value])
    /\ UNCHANGED <<envVars, siteVars, storeVars, sessVars>>

\* POST /api/settings/upload/:key: 400 without a file and for any key but the
\* two image keys; the value is the stored file's path.
UploadSetting(r, s, key, value, hasFile) ==
    /\ IF isAdmin(deserializeUser(s))
          /\ (~hasFile \/ key \notin {"tributeImage", "backgroundImage"})
       THEN FreeSlot(r) /\ Reject("s_upload", deserializeUser(s).id, 400)
       ELSE BeginAdmin(r, s, "s_upload", "set_get", [key |-> key, value |-> value])
    /\ UNCHANGED <<envVars, siteVars, storeVars, sessVars>>

\* storage.upsertSetting(setting) called as such.
Call_upsertSetting(r, key, value) ==
    /\ FreeSlot(r)
    /\ req' = [req EXCEPT ![r] = [NoReq EXCEPT !.kind = "upsertSetting", !.pc = "set_get",
                                         !.key = key, !.value = value]]
    /\ UNCHANGED <<envVars, siteVars, storeVars, sessVars, resp, hist>>

\* const existingSetting = await this.getSetting(setting.key)
Setting_get(r) ==
    /\ At(r, "set_get")
    /\ req' = [req EXCEPT ![r].pc = "set_wr", ![r].tid = getSetting(req[r].key)]
    /\ UNCHANGED <<envVars, siteVars, storeVars, sessVars, resp, hist>>

\* The update or the insert, then res.json(setting), or the catch block's 500.
Setting_write(r) ==
    /\ At(r, "set_wr")
    /\ settings' = upsertSetting(req[r].key, req[r].value, req[r].tid)
    /\ nextSettingId' = upsertSettingNextId(req[r].key, req[r].tid)
    /\ Finish(r, IF upsertSettingThrows(req[r].key, req[r].tid) THEN 500 ELSE 200)
    /\ UNCHANGED <<envVars, storeVars, sessVars, gallery, nextGalleryId, program,
                   nextProgramId, boot>>

\* ------------------------------------------------- PUT /api/funeral-program
\* Request bodies: the fields they supply.  date is one of the columns that
\* are not null, streamLink one of those that may be.
ProgramPatches == {[date |-> "d1"], [streamLink |-> "l1"], [id |-> 2, date |-> "d1"]}

\* getFuneralProgram: result[0] of a select without an order, any of the rows;
\* 0 when there is none.
FuneralPrograms == IF DOMAIN program = {} THEN {0} ELSE DOMAIN program

\* The id of the row an insert of body makes: the body's, else the sequence's.
insertedProgramId(body) == IF "id" \in DOMAIN body THEN body.id ELSE nextProgramId

\* MemStorage.updateFuneralProgram: { ...insertProgram, id: 1 } when there is
\* none, else { ...this._funeralProgram, ...insertProgram }.
memUpdateFuneralProgram(body) ==
    IF DOMAIN program = {} THEN (1 :> ([id |-> 1] @@ body))
    ELSE (1 :> (body @@ program[1]))

\* DatabaseStorage.updateFuneralProgram after its look-up found row
\* `existing`: set(program) where id = existing.id, or insert values(program).
\* It throws when a not-null column is missing or the id is another row's.
dbUpdateFuneralProgramThrows(body, existing) ==
    IF existing # 0
    THEN /\ existing \in DOMAIN program
         /\ "id" \in DOMAIN body /\ body.id # existing /\ body.id \in DOMAIN program
    ELSE "date" \notin DOMAIN body \/ insertedProgramId(body) \in DOMAIN program

dbUpdateFuneralProgram(body, existing) ==
    IF dbUpdateFuneralProgramThrows(body, existing) THEN program
    ELSE IF existing # 0
    THEN IF existing \notin DOMAIN program THEN program
         ELSE LET row == body @@ program[existing] IN
              Without(program, existing) @@ (row.id :> row)
    ELSE LET id == insertedProgramId(body) IN program @@ (id :> ([id |-> id] @@ body))

updateFuneralProgram(body, existing) ==
    IF impl = "mem" THEN memUpdateFuneralProgram(body)
    ELSE dbUpdateFuneralProgram(body, existing)

updateFuneralProgramThrows(body, existing) ==
    impl = "db" /\ dbUpdateFuneralProgramThrows(body, existing)

\* The sequence moves on with every insert that takes its id from it.
updateFuneralProgramNextId(body, existing) ==
    IF impl = "db" /\ existing = 0 /\ "date" \in DOMAIN body /\ "id" \notin DOMAIN body
    THEN nextProgramId + 1 ELSE nextProgramId

UpdateProgram(r, s, body) ==
    /\ BeginAdmin(r, s, "p_update", "prog_get", [patch |-> body])
    /\ UNCHANGED <<envVars, siteVars, storeVars, sessVars>>

\* storage.updateFuneralProgram(program) called as such.
Call_updateFuneralProgram(r, body) ==
    /\ FreeSlot(r)
    /\ req' = [req EXCEPT ![r] = [NoReq EXCEPT !.kind = "updateFuneralProgram",
                                         !.pc = "prog_get", !.patch = body]]
    /\ UNCHANGED <<envVars, siteVars, storeVars, sessVars, resp, hist>>

\* const existingProgram = await this.getFuneralProgram()
Program_get(r) ==
    /\ At(r, "prog_get")
    /\ \E existing \in FuneralPrograms :
         req' = [req EXCEPT ![r].pc = "prog_wr", ![r].tid = existing]
    /\ UNCHANGED <<envVars, siteVars, storeVars, sessVars, resp, hist>>

\* The update or the insert, then res.json(program), or the catch block's 500.
Program_write(r) ==
    /\ At(r, "prog_wr")
    /\ program' = updateFuneralProgram(req[r].patch, req[r].tid)
    /\ nextProgramId' = updateFuneralProgramNextId(req[r].patch, req[r].tid)
    /\ Finish(r, IF updateFuneralProgramThrows(req[r].patch, req[r].tid) THEN 500 ELSE 200)
    /\ UNCHANGED <<envVars, storeVars, sessVars, gallery, nextGalleryId, settings,
                   nextSettingId, boot>>

\* ----------------------------------------------------------- user routes
\* GET /api/users
ListUsers(r, s) ==
    /\ BeginAdmin(r, s, "u_list", "users_get", [userId |-> 0])
    /\ UNCHANGED <<envVars, siteVars, storeVars, sessVars>>

\* const users = await dbStorage.getAllUsers(); res.json(safeUsers)
Users_get(r) ==
    /\ At(r, "users_get")
    /\ Finish(r, 200)
    /\ UNCHANGED <<envVars, siteVars, storeVars, sessVars>>

\* newPassword.length of the passwords a request may carry.
PasswordLength == ("" :> 0) @@ ("pw1" :> 3) @@ ("longpass1" :> 9)

\* if (!newPassword || newPassword.length < 8)
passwordTooShort(newPassword) == newPassword = "" \/ PasswordLength[newPassword] < 8

\* PUT /api/users/:id/reset-password
ResetPassword(r, s, userId, newPassword) ==
    /\ IF isAdmin(deserializeUser(s)) /\ passwordTooShort(newPassword)
       THEN FreeSlot(r) /\ Reject("u_reset", deserializeUser(s).id, 400)
       ELSE BeginAdmin(r, s, "u_reset", "rp_hash",
                       [userId |-> userId, password |-> newPassword])
    /\ UNCHANGED <<envVars, siteVars, storeVars, sessVars>>

\* const hashedPassword = await hashPassword(newPassword)
Reset_hash(r) ==
    /\ At(r, "rp_hash")
    /\ \E salt \in Salts :
         req' = [req EXCEPT ![r].pc = "rp_upd",
                            ![r].stored = hashPassword(req[r].password, salt)]
    /\ UNCHANGED <<envVars, siteVars, storeVars, sessVars, resp, hist>>

\* const updatedUser = await dbStorage.updateUser(userId, { password })
Reset_updateUser(r) ==
    /\ At(r, "rp_upd")
    /\ IF req[r].userId \in DOMAIN users
       THEN /\ users' = [users EXCEPT ![req[r].userId].password = req[r].stored]
            /\ Finish(r, 200)
       ELSE /\ Finish(r, 404)
            /\ UNCHANGED users
    /\ UNCHANGED <<envVars, siteVars, nextUserId, tributes, nextTributeId, candles, sessVars>>

\* ------------------------------------------------------ the account routes
\* Only the seeded administrator exists and nobody is logged in.
InitAuth(oneAtATime) ==
    /\ impl \in {"mem", "db"}
    /\ serial = oneAtATime
    /\ users = SeedUsers(impl)
    /\ nextUserId = 2
    /\ tributes = <<>>
    /\ nextTributeId = 1
    /\ candles = EmptyBag
    /\ SeededSite
    /\ session = [s \in SessionIds |-> 0]
    /\ atLogin = [s \in SessionIds |-> FALSE]
    /\ req = [r \in Slots |-> NoReq]
    /\ resp = NoResp
    /\ hist = NoHist

UserIds == 1..MaxUsers

AuthStep(r) ==
    \/ Register_getUser(r)
    \/ Register_hash(r)
    \/ Register_createUser(r)
    \/ Login_getUser(r)
    \/ Login_compare(r)
    \/ ChangeRole_updateUser(r)

\* The requests clients send, with usernames drawn from the given ones.
AuthStart(r, usernames) ==
    \E s \in AuthSessions :
        \/ \E username \in usernames, password \in NewPasswords, payloadIsAdmin \in BOOLEAN :
             Register(r, s, username, password, payloadIsAdmin)
        \/ \E username \in usernames, password \in Passwords :
             Login(r, s, username, password)
        \/ Logout(r, s)
        \/ \E userId \in UserIds, makeAdmin \in BOOLEAN :
             ChangeRole(r, s, userId, makeAdmin)

\* Requests arrive at any time and interleave at their awaits; two usernames
\* are enough for two registrations to collide.
RaceUsernames == {"admin", "ann"}

NextAuth == \E r \in Slots : AuthStart(r, RaceUsernames) \/ AuthStep(r)

InitAuthRace == InitAuth(FALSE)

SpecAuth == InitAuthRace /\ [][NextAuth]_vars

\* Requests run one at a time.
NextAuthSeq == \E r \in Slots : AuthStart(r, Usernames) \/ AuthStep(r)

InitAuthSeq == InitAuth(TRUE)

SpecAuthSeq == InitAuthSeq /\ [][NextAuthSeq]_vars

\* ------------------------------------ DatabaseStorage.initializeDefaultData
\* The constructor starts it and does not wait for it.
BootKeys == <<"backgroundImage", "tributeImage", "footerMessage">>
BootStart == [pc |-> "check", n |-> 0, tid |-> 0]
reqVars == <<req, resp, hist>>

\* const existingSettings = await this.getAllSettings()
Boot_getAllSettings ==
    /\ boot.pc = "check"
    /\ boot' = IF DOMAIN settings = {} THEN [pc |-> "set_get", n |-> 1, tid |-> 0]
               ELSE BootDone
    /\ UNCHANGED <<envVars, storeVars, sessVars, reqVars, gallery, nextGalleryId, settings,
                   nextSettingId, program, nextProgramId>>

\* upsertSetting's getSetting for the n-th default setting
Boot_getSetting ==
    /\ boot.pc = "set_get"
    /\ boot' = [boot EXCEPT !.pc = "set_wr", !.tid = getSetting(BootKeys[boot.n])]
    /\ UNCHANGED <<envVars, storeVars, sessVars, reqVars, gallery, nextGalleryId, settings,
                   nextSettingId, program, nextProgramId>>

\* upsertSetting's update or insert; an error ends the whole initialisation.
Boot_upsertSetting ==
    /\ boot.pc = "set_wr"
    /\ settings' = upsertSetting(BootKeys[boot.n], "v0", boot.tid)
    /\ nextSettingId' = upsertSettingNextId(BootKeys[boot.n], boot.tid)
    /\ boot' = IF upsertSettingThrows(BootKeys[boot.n], boot.tid) THEN BootDone
               ELSE IF boot.n < Len(BootKeys)
               THEN [pc |-> "set_get", n |-> boot.n + 1, tid |-> 0]
               ELSE [pc |-> "gallery", n |-> 0, tid |-> 0]
    /\ UNCHANGED <<envVars, storeVars, sessVars, reqVars, gallery, nextGalleryId, program,
                   nextProgramId>>

\* await this.createGalleryImage({.., isFeatured: true, order: 1})
Boot_createGalleryImage ==
    /\ boot.pc = "gallery"
    /\ gallery' = gallery @@ (nextGalleryId :>
                     NewImage([order |-> 1, isFeatured |-> TRUE], nextGalleryId))
    /\ nextGalleryId' = nextGalleryId + 1
    /\ boot' = [pc |-> "prog_get", n |-> 0, tid |-> 0]
    /\ UNCHANGED <<envVars, storeVars, sessVars, reqVars, settings, nextSettingId, program,
                   nextProgramId>>

\* updateFuneralProgram's getFuneralProgram
Boot_getFuneralProgram ==
    /\ boot.pc = "prog_get"
    /\ \E existing \in FuneralPrograms :
         boot' = [pc |-> "prog_wr", n |-> 0, tid |-> existing]
    /\ UNCHANGED <<envVars, storeVars, sessVars, reqVars, gallery, nextGalleryId, settings,
                   nextSettingId, program, nextProgramId>>

\* updateFuneralProgram's update or insert of the default program
Boot_updateFuneralProgram ==
    /\ boot.pc = "prog_wr"
    /\ program' = updateFuneralProgram([date |-> "d0", streamLink |-> "l0"], boot.tid)
    /\ nextProgramId' = updateFuneralProgramNextId([date |-> "d0", streamLink |-> "l0"],
                                                   boot.tid)
    /\ boot' = BootDone
    /\ UNCHANGED <<envVars, storeVars, sessVars, reqVars, gallery, nextGalleryId, settings,
                   nextSettingId>>

BootStep ==
    \/ Boot_getAllSettings
    \/ Boot_getSetting
    \/ Boot_upsertSetting
    \/ Boot_createGalleryImage
    \/ Boot_getFuneralProgram
    \/ Boot_updateFuneralProgram

\* ------------------------------------------------------- storage as such
\* A database whose content tables are empty when the server starts.
EmptySite ==
    /\ gallery = <<>>
    /\ nextGalleryId = 1
    /\ settings = <<>>
    /\ nextSettingId = 1
    /\ program = <<>>
    /\ nextProgramId = 1
    /\ boot = BootStart

\* Nobody is logged in; the storage methods are called as such.
InitStore(oneAtATime) ==
    /\ impl \in {"mem", "db"}
    /\ serial = oneAtATime
    /\ users = SeedUsers(impl)
    /\ nextUserId = 2
    /\ tributes = <<>>
    /\ nextTributeId = 1
    /\ candles = EmptyBag
    /\ \/ SeededSite
       \/ impl = "db" /\ ~oneAtATime /\ EmptySite
    /\ session = [s \in SessionIds |-> 0]
    /\ atLogin = [s \in SessionIds |-> FALSE]
    /\ req = [r \in Slots |-> NoReq]
    /\ resp = NoResp
    /\ hist = NoHist

StoreStep(r) ==
    \/ Setting_get(r)
    \/ Setting_write(r)
    \/ Program_get(r)
    \/ Program_write(r)

StoreStart(r) ==
    \/ \E key \in SettingKeys, value \in SettingValues : Call_upsertSetting(r, key, value)
    \/ \E body \in ProgramPatches : Call_updateFuneralProgram(r, body)

NextStoreSeq == \E r \in Slots : StoreStart(r) \/ StoreStep(r)

\* The calls that run while others, and the initialisation, are under way.
StoreRaceStart(r) ==
    \/ \E key \in SettingKeys : Call_upsertSetting(r, key, "v1")
    \/ Call_updateFuneralProgram(r, [date |-> "d1"])

NextStore == (\E r \in Slots : StoreRaceStart(r) \/ StoreStep(r)) \/ BootStep

InitStoreRace == InitStore(FALSE)

SpecStore == InitStoreRace /\ [][NextStore]_vars

InitStoreSeq == InitStore(TRUE)

SpecStoreSeq == InitStoreSeq /\ [][NextStoreSeq]_vars

\* ------------------------------------------------- the admin-only routes
\* The administrator holds session s1 (on the database: MemStorage's seeded
\* administrator cannot log in), member 2 holds s2, s3 is bound to no account.
InitAdmin ==
    /\ impl \in {"mem", "db"}
    /\ serial = TRUE
    /\ users = SeedUsers(impl) @@ (2 :> Member("ann"))
    /\ nextUserId = 3
    /\ tributes = <<>>
    /\ nextTributeId = 1
    /\ candles = EmptyBag
    /\ SeededSite
    /\ session = [s \in SessionIds |->
                    CASE s = "s1" -> IF impl = "db" THEN 1 ELSE 0
                      [] s = "s2" -> 2
                      [] OTHER -> 0]
    /\ atLogin = [s \in SessionIds |-> s = "s1" /\ impl = "db"]
    /\ req = [r \in Slots |-> NoReq]
    /\ resp = NoResp
    /\ hist = NoHist

AdminStep(r) ==
    \/ Gallery_insert(r)
    \/ Gallery_update(r)
    \/ Gallery_delete(r)
    \/ Setting_get(r)
    \/ Setting_write(r)
    \/ Program_get(r)
    \/ Program_write(r)
    \/ Users_get(r)
    \/ Reset_hash(r)
    \/ Reset_updateUser(r)
    \/ ChangeRole_updateUser(r)

\* What the requests of these runs carry: one value of each kind, and the
\* values the handlers turn down.
AdminImage == [order |-> 0, isFeatured |-> FALSE]
AdminPatch == [order |-> 2]
AdminBody == [streamLink |-> "l1"]

\* An admin-only request on session s.
AdminRequest(r, s) ==
    \/ \E valid \in BOOLEAN : CreateImage(r, s, AdminImage, valid)
    \/ \E hasFile \in BOOLEAN : UploadImage(r, s, AdminImage, hasFile)
    \/ \E id \in ImageIds : UpdateImage(r, s, id, AdminPatch)
    \/ \E id \in ImageIds : DeleteImage(r, s, id)
    \/ \E value \in {"", "v1"} : UpsertSetting(r, s, "tributeImage", value)
    \/ \E key \in SettingKeys, hasFile \in BOOLEAN : UploadSetting(r, s, key, "v1", hasFile)
    \/ UpdateProgram(r, s, AdminBody)
    \/ ListUsers(r, s)
    \/ \E userId \in UserIds : ChangeRole(r, s, userId, FALSE)
    \/ \E userId \in {2, 3}, newPassword \in {"pw1", "longpass1"} :
         ResetPassword(r, s, userId, newPassword)

AdminStart(r) == \E s \in SessionIds : AdminRequest(r, s)

NextAdmin == \E r \in Slots : AdminStart(r) \/ AdminStep(r)

SpecAdmin == InitAdmin /\ [][NextAdmin]_vars

\* ------------------------------------------------------ one browser session
\* GET /api/user: answers at once from req.user.
GetCurrentUser(r, s) ==
    /\ FreeSlot(r)
    /\ LET user == deserializeUser(s) IN
       resp' = Response("user", user.id, IF isAuthenticated(user) THEN 200 ELSE 401)
    /\ UNCHANGED <<envVars, siteVars, storeVars, sessVars, req, hist>>

\* Bodies of POST /api/tributes: a text, no text, blanks, no content at all,
\* and a body with a userId and a candleCount of its own.
Forged == <<"x">>
TributeBodies ==
    {PlainBody, [content |-> <<>>], [content |-> <<" ", " ">>], [mediaUrl |-> "u"],
     [content |-> Forged, userId |-> 1, candleCount |-> 5]}

\* The session-protected requests on session s.
SessionRequest(r, s) ==
    \/ \E body \in TributeBodies : CreateTribute(r, s, body, MaxTributes)
    \/ \E tid \in TributeIds : ToggleCandle(r, s, tid)
    \/ \E tid \in TributeIds : DeleteTribute(r, s, tid)
    \/ GetCurrentUser(r, s)

\* One browser, session s2, logged in as member 2 at first.
Browser == "s2"

InitSess ==
    /\ impl \in {"mem", "db"}
    /\ serial = TRUE
    /\ users = SeedUsers(impl) @@ (2 :> Member("ann"))
    /\ nextUserId = 3
    /\ tributes = <<>>
    /\ nextTributeId = 1
    /\ candles = EmptyBag
    /\ SeededSite
    /\ session = [s \in SessionIds |-> IF s = Browser THEN 2 ELSE 0]
    /\ atLogin = [s \in SessionIds |-> FALSE]
    /\ req = [r \in Slots |-> NoReq]
    /\ resp = NoResp
    /\ hist = NoHist

SessStart(r) ==
    \/ SessionRequest(r, Browser)
    \/ Logout(r, Browser)
    \/ \E username \in {"ann", "bob"}, password \in Passwords :
         Login(r, Browser, username, password)
    \/ Register(r, Browser, "bob", "pw1", FALSE)

SessStep(r) ==
    \/ TributeStep(r)
    \/ Login_getUser(r)
    \/ Login_compare(r)
    \/ Register_getUser(r)
    \/ Register_hash(r)
    \/ Register_createUser(r)

NextSess == \E r \in Slots : SessStart(r) \/ SessStep(r)

SpecSess == InitSess /\ [][NextSess]_vars

\* ------------------------------------------------------------------ claims
\* The candle rows that reference a tribute.
NumCandles(tributeId) == BagCardinality(getCandles(tributeId))

CountsMatch == \A t \in DOMAIN tributes : tributes[t].candleCount = NumCandles(t)

\* Tributes that were created and are gone: ids are handed out once.
DeletedTributes == (1..(nextTributeId - 1)) \ DOMAIN tributes

\* C1: whenever no request is in flight, every existing tribute's candleCount
\* equals the number of candle rows referencing it, whatever the interleaving
\* of the toggle requests was.
C1_CountsMatchWhenQuiet == Quiet => CountsMatch

\* C2: at most one candle row exists per (userId, tributeId) pair, in every
\* reachable state.
C2_OneCandlePerPair == \A p \in DOMAIN candles : candles[p] <= 1

\* C3: when requests run one at a time, every existing tribute's candleCount
\* equals the number of candle rows referencing it in every state between
\* requests, on MemStorage and on DatabaseStorage.
C3_CountsMatchSerial == Quiet => CountsMatch

C3_Witness ==
    /\ Quiet
    /\ resp.kind = "toggle" /\ resp.status = 200
    /\ \E t \in DOMAIN tributes : tributes[t].candleCount = 2 /\ NumCandles(t) = 2

\* C4: two consecutive toggles by one account on one existing tribute, with no
\* other request in between, restore the pair's lit state, the candle rows of
\* every other pair and the tribute's candleCount.
C4_DoubleToggleRestores ==
    (hist.stage = "done2" /\ hist.tid \in DOMAIN tributes) =>
        /\ hasUserLitCandle(hist.uid, hist.tid) = hist.lit
        /\ OtherPairs(hist.uid, hist.tid) = hist.others
        /\ tributes[hist.tid].candleCount = hist.cnt

\* C5: once deleteTribute has removed a tribute, no candle row references it
\* and the tribute is gone, on every IStorage implementation.
C5_DeleteRemovesCandles ==
    Quiet => \A t \in DeletedTributes : getCandles(t) = EmptyBag

\* C6: a delete request removes the tribute only for its owner or an admin;
\* for an authenticated caller who is neither it answers 403 and leaves the
\* tributes and the candle rows as they were.
C6_DeleteOwnerOrAdmin ==
    [][\A r \in Slots :
         /\ (req[r].pc = "d_trib" /\ req[r].tid \in DOMAIN tributes
                /\ req[r].tid \notin DOMAIN tributes')
              => (tributes[req[r].tid].userId = req[r].uid \/ req[r].adm)
         /\ (req[r].pc = "d_get" /\ req'[r].pc # "d_get"
                /\ req[r].tid \in DOMAIN tributes
                /\ tributes[req[r].tid].userId # req[r].uid /\ ~req[r].adm)
              => (resp'.status = 403 /\ req'[r] = NoReq
                  /\ tributes' = tributes /\ candles' = candles)
         /\ (DOMAIN tributes' # DOMAIN tributes /\ DOMAIN tributes' \subseteq DOMAIN tributes)
              => \E q \in Slots : req[q].pc = "d_trib"]_vars

C6_Witness ==
    /\ Quiet
    /\ resp.kind = "delete" /\ resp.status = 403
    /\ \E t \in DOMAIN tributes :
          tributes[t].userId # resp.uid /\ getCandles(t) # EmptyBag

\* C7: every account a request creates is stored with isAdmin = false,
\* whatever isAdmin value the register payload carried.
C7_RegisterNeverAdmin ==
    [][\A u \in DOMAIN users' \ DOMAIN users : ~users'[u].isAdmin]_vars

C7_Witness ==
    /\ Quiet
    /\ resp.kind = "register" /\ resp.status = 201
    /\ resp.uid = nextUserId - 1
    /\ resp.uid \in DOMAIN users /\ ~users[resp.uid].isAdmin
    /\ \E s \in AuthSessions : session[s] = resp.uid

\* C8: no two accounts share a username, also when two register requests for
\* the same new username both pass the existence check before either inserts.
C8_UniqueUsernames ==
    \A i \in DOMAIN users, j \in DOMAIN users :
        users[i].username = users[j].username => i = j

\* C9: a role-change request by admin A with target A and isAdmin = false is
\* answered 403 and leaves the accounts as they were; the same request with
\* another existing account B as target is admitted, and its update answers
\* 200 and stores isAdmin = false for B.
C9_NoSelfDemotion ==
    [][/\ \A r \in Slots, s \in AuthSessions, userId \in UserIds :
            (/\ session[s] \in DOMAIN users
             /\ users[session[s]].isAdmin
             /\ ChangeRole(r, s, userId, FALSE))
            => IF userId = session[s]
               THEN /\ resp' = Response("role", session[s], 403)
                    /\ req' = req
                    /\ users' = users
               ELSE /\ req'[r].pc = "role_upd"
                    /\ req'[r].userId = userId
                    /\ ~req'[r].isAdmin
       /\ \A r \in Slots :
            (/\ req[r].pc = "role_upd"
             /\ req[r].userId \in DOMAIN users
             /\ ~req[r].isAdmin
             /\ req'[r].pc # "role_upd")
            => /\ resp' = Response("role", req[r].uid, 200)
               /\ ~users'[req[r].userId].isAdmin
               /\ req[r].userId # req[r].uid
       /\ \A u \in DOMAIN users :
            (users[u].isAdmin /\ ~users'[u].isAdmin)
            => \E r \in Slots : /\ req[r].pc = "role_upd"
                                /\ req[r].userId = u
                                /\ req[r].uid # u]_vars

\* Account 1, an administrator from the start, was demoted by another
\* administrator, who was then refused the removal of their own flag.
C9_Witness ==
    /\ Quiet
    /\ ~users[1].isAdmin
    /\ resp.kind = "role" /\ resp.status = 403
    /\ resp.uid \in DOMAIN users /\ resp.uid # 1
    /\ users[resp.uid].isAdmin

\* C10: an admin-only request is admitted only if the stored account of its
\* session has isAdmin = true when the request arrives: arriving on a session
\* whose account's stored flag is false, it is answered 403 and changes
\* nothing, whatever the flag was when the session was bound.
C10_AdminCheckedPerRequest ==
    [][\A r \in Slots, s \in AuthSessions, userId \in UserIds, makeAdmin \in BOOLEAN :
         (/\ session[s] \in DOMAIN users
          /\ ~users[session[s]].isAdmin
          /\ ChangeRole(r, s, userId, makeAdmin))
         => /\ resp' = Response("role", session[s], 403)
            /\ req' = req
            /\ users' = users]_vars

\* A session bound while its account was an administrator, the account
\* demoted since, and its admin-only request refused.
C10_Witness ==
    /\ Quiet
    /\ resp.kind = "role" /\ resp.status = 403
    /\ \E s \in AuthSessions :
         /\ atLogin[s]
         /\ session[s] = resp.uid
         /\ resp.uid \in DOMAIN users
         /\ ~users[resp.uid].isAdmin

\* C11: an admin-only request (gallery create, upload, update, delete; setting
\* upsert and image upload; funeral-program upsert; user list, role change,
\* password reset) by a caller that is not an authenticated administrator is
\* rejected, starts no handler, and leaves gallery, settings, funeral program
\* and accounts as they were.
C11_NonAdminRejected ==
    [][\A r \in Slots, s \in SessionIds :
         (~isAdmin(deserializeUser(s)) /\ AdminRequest(r, s))
         => /\ resp'.status \in {401, 403}
            /\ req' = req
            /\ UNCHANGED <<siteVars, users, nextUserId>>]_vars

\* A member's funeral-program update was turned down.
C11_Witness ==
    /\ resp.kind = "p_update" /\ resp.status = 403 /\ resp.uid = 2
    /\ ~users[2].isAdmin
    /\ program = (1 :> DefaultProgram)

\* C12: a request without a valid session is answered 401 Unauthorized on
\* every protected operation, the admin-only ones included; 403 Forbidden goes
\* only to an authenticated caller.
C12_NoSessionUnauthorized ==
    [][\A r \in Slots, s \in SessionIds :
         (~isAuthenticated(deserializeUser(s)) /\ AdminRequest(r, s))
         => resp'.status = 401]_vars

\* C13: a login that ends succeeds only if an account with the username exists
\* and the password verifies against its stored hash, and then the session is
\* bound to that account's id; any other login ends with 401, binds no session
\* and changes no stored state.
C13_LoginChecked ==
    [][\A r \in Slots :
         ((Login_getUser(r) \/ Login_compare(r)) /\ req'[r].pc = "idle")
         => IF resp'.status = 200
            THEN \E id \in DOMAIN users :
                   /\ users[id].username = req[r].username
                   /\ comparePasswords(req[r].password, users[id].password)
                   /\ session'[req[r].sid] = id
            ELSE /\ resp'.status = 401
                 /\ UNCHANGED <<session, storeVars>>]_vars

\* C15: a failed login gets the same response, status and message, whether the
\* username is unknown or the password is wrong: two failed logins in a row
\* are answered alike.
C15_SameFailure ==
    [][\A r \in Slots :
         (/\ Login_getUser(r) \/ Login_compare(r)
          /\ resp'.kind = "login" /\ resp'.status = 401
          /\ resp.kind = "login" /\ resp.status = 401)
         => resp'.info = resp.info]_vars

\* C14: after a logout the session is unauthenticated; while it is, create
\* tribute, delete tribute, toggle candle and get current user on it are
\* answered 401 and change nothing; and it stays so until a login or a
\* registration on that session succeeds.
C14_LoggedOutRejected ==
    [][\A r \in Slots, s \in SessionIds :
         /\ Logout(r, s) => ~isAuthenticated(deserializeUser(s))'
         /\ (~isAuthenticated(deserializeUser(s)) /\ SessionRequest(r, s))
            => (resp'.status = 401 /\ req' = req /\ UNCHANGED storeVars)
         /\ (~isAuthenticated(deserializeUser(s)) /\ isAuthenticated(deserializeUser(s))')
            => \E q \in Slots :
                 /\ Login_compare(q) \/ Register_createUser(q)
                 /\ req[q].sid = s
                 /\ resp'.status \in {200, 201}]_vars

\* The browser started logged in; it has logged out and its candle toggle was
\* turned down.
C14_Witness ==
    /\ session[Browser] = 0
    /\ resp.kind = "toggle" /\ resp.status = 401

\* C19: a create-tribute request of an authenticated caller whose content is
\* empty or all blanks is answered 400 by the server and stores no tribute.
C19_BlankContentRejected ==
    [][\A r \in Slots, s \in SessionIds, body \in TributeBodies :
         (/\ isAuthenticated(deserializeUser(s))
          /\ "content" \in DOMAIN body /\ Trim(body.content) = <<>>
          /\ CreateTribute(r, s, body, MaxTributes))
         => (resp'.status = 400 /\ req' = req)]_vars

\* C20: the tribute POST /api/tributes stores has the caller's account id as
\* userId and candleCount 0, whatever userId or candleCount the body carries.
C20_OwnerIsCaller ==
    [][\A r \in Slots :
         CreateTribute_insert(r)
         => /\ nextTributeId \in DOMAIN tributes' \ DOMAIN tributes
            /\ tributes'[nextTributeId].userId = req[r].uid
            /\ tributes'[nextTributeId].candleCount = 0
            /\ req[r].uid = session[Browser]]_vars

\* The body that names account 1 and five candles was stored for member 2,
\* its sender, with no candle.
C20_Witness ==
    /\ resp.kind = "create" /\ resp.status = 201 /\ resp.uid = 2
    /\ \E t \in DOMAIN tributes :
         /\ tributes[t].content = Forged
         /\ tributes[t].userId = 2
         /\ tributes[t].candleCount = 0

\* C16: with upsertSetting called any number of times, one call after the
\* other, every call leaves exactly one row for its key, holding its value,
\* leaves the rows of the other keys as they were, and no key has two rows.
C16_OneRowPerKey ==
    [][\A r \in Slots :
         Setting_write(r)
         => LET key == req[r].key
                rows == {i \in DOMAIN settings' : settings'[i].key = key} IN
            /\ Cardinality(rows) = 1
            /\ \A i \in rows : settings'[i].value = req[r].value
            /\ \A i \in DOMAIN settings :
                 settings[i].key # key
                 => i \in DOMAIN settings' /\ settings'[i] = settings[i]
            /\ \A i \in DOMAIN settings' \ DOMAIN settings : settings'[i].key = key
            /\ \A i, j \in DOMAIN settings' :
                 settings'[i].key = settings'[j].key => i = j]_vars

\* A default setting was overwritten and a new key was written, the last call
\* answered.
C16_Witness ==
    /\ resp.kind = "upsertSetting" /\ resp.status = 200
    /\ \E i \in DOMAIN settings : settings[i] = [key |-> "tributeImage", value |-> "v2"]
    /\ \E i \in DOMAIN settings : settings[i] = [key |-> "siteTitle", value |-> "v2"]
    /\ Cardinality(DOMAIN settings) = 4

\* C17: there is at most one funeral-program record in every reachable state,
\* also when two updateFuneralProgram calls both find no record before either
\* inserts (the initialisation racing an update, or two updates).
C17_AtMostOneProgram == Cardinality(DOMAIN program) <= 1

\* C18: updateFuneralProgram on an existing record changes the fields the call
\* supplies and no other, and never the record's id, whatever the body holds.
C18_PatchKeepsId ==
    [][\A r \in Slots :
         (Program_write(r) /\ DOMAIN program # {} /\ resp'.status = 200)
         => \E old \in DOMAIN program, new \in DOMAIN program' :
              /\ DOMAIN program'[new] = DOMAIN program[old]
              /\ program'[new].id = program[old].id
              /\ \A f \in DOMAIN program[old] \ {"id"} :
                   program'[new][f] = IF f \in DOMAIN req[r].patch THEN req[r].patch[f]
                                      ELSE program[old][f]]_vars

\* ------------------------------------- GET /api/tributes, /api/tributes/:id
\* A read that would report a candle on the tribute whoever lit it.
hasLitCandleOfAnyone(userId, tributeId) ==
    \E u \in DOMAIN users : hasUserLitCandle(u, tributeId)

\* hasLitCandle: req.isAuthenticated() ? await storage.hasUserLitCandle(
\*     req.user.id, tribute.id) : false
hasLitCandle(userId, tributeId) ==
    IF userId # 0 THEN hasUserLitCandle(userId, tributeId) ELSE FALSE

\* res.json({ ...tribute, user, hasLitCandle }) and the list of them: lits
\* gives hasLitCandle for each tribute of the body.
FinishView(r, lits) ==
    /\ req' = [req EXCEPT ![r] = NoReq]
    /\ resp' = [Response(req[r].kind, req[r].uid, 200) EXCEPT !.lit = lits]
    /\ hist' = HistDone(200)

\* Neither route has a middleware in front: anyone may read.
GetTribute(r, s, tid) ==
    /\ FreeSlot(r)
    /\ req' = [req EXCEPT ![r] = [NoReq EXCEPT !.kind = "view", !.pc = "v_get",
                                         !.uid = deserializeUser(s).id,
                                         !.tid = tid]]
    /\ hist' = NoHist
    /\ UNCHANGED <<envVars, siteVars, storeVars, sessVars, resp>>

\* const tribute = await storage.getTributeById(tributeId)
View_getTribute(r) ==
    /\ At(r, "v_get")
    /\ IF req[r].tid \in DOMAIN tributes
       THEN Goto(r, "v_user")
       ELSE Finish(r, 404)
    /\ UNCHANGED <<envVars, siteVars, storeVars, sessVars>>

\* const user = await storage.getUser(tribute.userId), and then the
\* conditional of hasLitCandle: without a session nothing is awaited.
View_getUser(r) ==
    /\ At(r, "v_user")
    /\ IF isAuthenticated([id |-> req[r].uid])
       THEN Goto(r, "v_has")
       ELSE FinishView(r, (req[r].tid :> hasLitCandle(req[r].uid, req[r].tid)))
    /\ UNCHANGED <<envVars, siteVars, storeVars, sessVars>>

\* await storage.hasUserLitCandle(req.user.id, tribute.id)
View_hasLit(r) ==
    /\ At(r, "v_has")
    /\ FinishView(r, (req[r].tid :> hasLitCandle(req[r].uid, req[r].tid)))
    /\ UNCHANGED <<envVars, siteVars, storeVars, sessVars>>

GetTributes(r, s) ==
    /\ FreeSlot(r)
    /\ req' = [req EXCEPT ![r] = [NoReq EXCEPT !.kind = "list", !.pc = "l_get",
                                         !.uid = deserializeUser(s).id]]
    /\ hist' = NoHist
    /\ UNCHANGED <<envVars, siteVars, storeVars, sessVars, resp>>

\* const tributes = await storage.getTributes(limit, offset): a query
\* without limit and offset asks for the whole list.
List_getTributes(r) ==
    /\ At(r, "l_get")
    /\ req' = [req EXCEPT ![r].pc = "l_each", ![r].todo = DOMAIN tributes]
    /\ UNCHANGED <<envVars, siteVars, storeVars, sessVars, resp, hist>>

\* One callback of tributes.map(async ..): getUser, which only reads, and
\* hasLitCandle for that tribute.
List_each(r) ==
    /\ At(r, "l_each")
    /\ \E t \in req[r].todo :
         req' = [req EXCEPT ![r].todo = @ \ {t},
                            ![r].lits = (t :> hasLitCandle(req[r].uid, t)) @@ @]
    /\ UNCHANGED <<envVars, siteVars, storeVars, sessVars, resp, hist>>

\* res.json(tributesWithUsers) once Promise.all has every callback's value.
List_respond(r) ==
    /\ At(r, "l_each")
    /\ req[r].todo = {}
    /\ FinishView(r, req[r].lits)
    /\ UNCHANGED <<envVars, siteVars, storeVars, sessVars>>

ViewStart(r) ==
    \E s \in SessionIds :
        \/ \E tid \in TributeIds : GetTribute(r, s, tid)
        \/ GetTributes(r, s)

ViewStep(r) ==
    \/ View_getTribute(r)
    \/ View_getUser(r)
    \/ View_hasLit(r)
    \/ List_getTributes(r)
    \/ List_each(r)
    \/ List_respond(r)

\* The tribute routes, reads included, one request at a time.
NextView ==
    \E r \in Slots : TributeStart(r) \/ TributeStep(r) \/ ViewStart(r) \/ ViewStep(r)

SpecView == InitSeq /\ [][NextView]_vars

\* The request in slot r takes a step.
Steps(r) == req'[r] # req[r]

\* The request in slot r, of the given kinds, answers 200 in this step.
Answers(r, kinds) ==
    /\ req[r].kind \in kinds
    /\ req'[r] = NoReq
    /\ resp'.status = 200

\* C21: the hasLitCandle a tribute read returns for a tribute is TRUE exactly
\* when the caller is logged in and a candle record exists for the caller and
\* that tribute, so it is FALSE for every tribute of an anonymous caller; and
\* a step of a toggle by user U on tribute X changes the lit state of no pair
\* other than (U, X).
C21_HasLitIsCallersCandle ==
    [][\A r \in Slots :
         /\ Answers(r, {"view", "list"}) =>
               \A t \in DOMAIN resp'.lit, u \in UserIds \cup {0} :
                   u = req[r].uid =>
                       resp'.lit[t] = (u # 0 /\ hasUserLitCandle(u, t)')
         /\ (req[r].kind = "toggle" /\ Steps(r)) =>
               \A u \in UserIds, t \in TributeIds :
                   <<u, t>> # <<req[r].uid, req[r].tid>> =>
                       hasUserLitCandle(u, t)' = hasUserLitCandle(u, t)]_vars

\* One member has lit the tribute and another member's read of it says FALSE.
C21_Witness ==
    /\ resp.kind = "view" /\ resp.status = 200 /\ resp.uid = 3
    /\ resp.lit = (1 :> FALSE)
    /\ hasUserLitCandle(2, 1)
    /\ ~hasUserLitCandle(3, 1)
\* C28: the body of a successful candle toggle agrees with what is stored when
\* the request finishes: lit says whether a candle record exists for the
\* caller and the tribute, candleCount is the tribute's stored candleCount.
C28_ToggleBodyIsStoredState ==
    [][\A r \in Slots, u \in UserIds, t \in TributeIds :
         (/\ Answers(r, {"toggle"})
          /\ u = req[r].uid /\ t = req[r].tid
          /\ t \in DOMAIN tributes') =>
             /\ resp'.lit[t] = hasUserLitCandle(u, t)'
             /\ resp'.cnt = tributes'[t].candleCount]_vars
\* C23: the candleCount of every tribute is at least 0 in every reachable
\* state; and a removeCandle deletes the caller's candle record and, when the
\* count it then reads from the tribute is 0, ends without writing a count.
C23_CountNeverNegative ==
    [][\A r \in Slots, u \in UserIds, t \in DOMAIN tributes' :
         /\ tributes'[t].candleCount >= 0
         /\ (/\ req[r].kind = "toggle" /\ Steps(r)
             /\ u = req[r].uid /\ t = req[r].tid /\ t \in DOMAIN tributes) =>
                 /\ req[r].pc = "rm_del" => ~hasUserLitCandle(u, t)'
                 /\ (/\ req[r].pc = IF impl = "mem" THEN "rm_del" ELSE "rm_get"
                     /\ tributes[t].candleCount = 0) =>
                         req'[r] = NoReq /\ tributes' = tributes]_vars

\* A candle has just been removed from a pair that was lit while the stored
\* count was 0: the record is gone and the count is still 0.
C23_Witness ==
    /\ resp.kind = "toggle" /\ resp.status = 200
    /\ resp.lit = (1 :> FALSE) /\ resp.cnt = -1
    /\ 1 \in DOMAIN tributes /\ tributes[1].candleCount = 0
    /\ ~hasUserLitCandle(resp.uid, 1)
\* ------------------------------------------------- every route, in turn
\* One request of each admin-only route on session s.
SiteRequest(r, s) ==
    \/ CreateImage(r, s, AdminImage, TRUE)
    \/ UploadImage(r, s, AdminImage, TRUE)
    \/ UpdateImage(r, s, 1, AdminPatch)
    \/ DeleteImage(r, s, 1)
    \/ UpsertSetting(r, s, "tributeImage", "v1")
    \/ UploadSetting(r, s, "tributeImage", "v1", TRUE)
    \/ UpdateProgram(r, s, AdminBody)
    \/ ListUsers(r, s)
    \/ ChangeRole(r, s, 2, FALSE)
    \/ ResetPassword(r, s, 2, "longpass1")

\* The administrator's session s1 sends the admin-only requests, the member's
\* s2 the tribute requests, a third browser the account ones.
SiteStart(r) ==
    \/ SiteRequest(r, "s1")
    \/ CreateTribute(r, "s2", PlainBody, MaxTributes + 1)
    \/ ToggleCandle(r, "s2", 1)
    \/ DeleteTribute(r, "s2", 1)
    \/ Register(r, "s3", "bob", "pw1", FALSE)
    \/ Login(r, "s3", "ann", "pw1")
    \/ Logout(r, "s3")

NextSite == \E r \in Slots : SiteStart(r) \/ SessStep(r) \/ AdminStep(r)

SpecSite == InitAdmin /\ [][NextSite]_vars

\* C22: a step that changes the stored record of a tribute that exists before
\* and after it is a step of a candle toggle, and candleCount is all it
\* changes: register, login, logout, create and delete tribute and every
\* gallery, setting, program and user-admin request leave the candleCount of
\* every existing tribute as it was.
C22_OnlyToggleChangesCount ==
    [][\A t \in DOMAIN tributes \cap DOMAIN tributes' :
         tributes'[t] # tributes[t] =>
             /\ \E r \in Slots : req[r].kind = "toggle" /\ Steps(r)
             /\ tributes' = updateTribute(t, tributes'[t].candleCount)]_vars

\* A second tribute has been created while the first has a candle counted.
C22_Witness ==
    /\ DOMAIN tributes = {1, 2}
    /\ tributes[1].candleCount = 1
    /\ resp.kind = "create" /\ resp.status = 201
\* ------------------------------------ GET /api/gallery, /api/gallery/featured
\* The display orders images are given here.
MaxOrder == 2

\* Query strings of ?limit= and ?offset=, "" for a parameter left out, and
\* what parseInt makes of each.
QueryTexts == {"", "0", "1", "2", "3"}
parseInt == ("0" :> 0) @@ ("1" :> 1) @@ ("2" :> 2) @@ ("3" :> 3)

\* req.query.limit ? parseInt(req.query.limit) : undefined, the number as a
\* one-element set and undefined as the empty one.
queryLimit(text) == IF text = "" THEN {} ELSE {parseInt[text]}

\* req.query.offset ? parseInt(req.query.offset) : 0
queryOffset(text) == IF text = "" THEN 0 ELSE parseInt[text]

\* The lists of the given images, each once, in ascending order.
Ascending(ids) ==
    {list \in [1..Cardinality(ids) -> ids] :
        /\ \A i, j \in DOMAIN list : i < j => list[i] # list[j]
        /\ \A i, j \in DOMAIN list :
              i < j => gallery[list[i]].order <= gallery[list[j]].order}

\* Array.from(this._gallery.values()).sort((a, b) => a.order - b.order) is a
\* stable sort of the map's insertion order, which is the order of the ids;
\* ORDER BY "order" leaves the images of equal order in any sequence.
sortByOrder(ids) ==
    IF impl = "mem"
    THEN {list \in Ascending(ids) :
            \A i, j \in DOMAIN list :
                (i < j /\ gallery[list[i]].order = gallery[list[j]].order)
                    => list[i] < list[j]}
    ELSE Ascending(ids)

\* A slice that would end at limit instead of offset + limit.
sliceEndAtLimit(offset, limit) == limit

\* allImages.slice(offset, offset + limit): where the slice ends.
sliceEnd(offset, limit) == offset + limit

\* Array.prototype.slice(start, end) for start, end >= 0.
slice(list, start, end) ==
    SubSeq(list, start + 1, IF end < Len(list) THEN end ELSE Len(list))

\* getGalleryImages(limit, offset): the lists it may return.
getGalleryImages(limit, offset) ==
    {IF limit # {}
     THEN slice(all, offset, sliceEnd(offset, CHOOSE n \in limit : TRUE))
     ELSE all : all \in sortByOrder(DOMAIN gallery)}

\* getFeaturedGalleryImages(): the lists it may return.
getFeaturedGalleryImages ==
    sortByOrder({id \in DOMAIN gallery : gallery[id].isFeatured})

\* Neither gallery read has a middleware in front.
GetGallery(r, limitText, offsetText) ==
    /\ FreeSlot(r)
    /\ req' = [req EXCEPT ![r] = [NoReq EXCEPT !.kind = "g_list", !.pc = "g_list",
                                         !.patch = [limit |-> queryLimit(limitText),
                                                    offset |-> queryOffset(offsetText)]]]
    /\ hist' = NoHist
    /\ UNCHANGED <<envVars, siteVars, storeVars, sessVars, resp>>

\* res.json(images)
FinishList(r, items) ==
    /\ req' = [req EXCEPT ![r] = NoReq]
    /\ resp' = [Response(req[r].kind, req[r].uid, 200) EXCEPT !.items = items]
    /\ hist' = HistDone(200)

\* const images = await storage.getGalleryImages(limit, offset)
Gallery_list(r) ==
    /\ At(r, "g_list")
    /\ \E images \in getGalleryImages(req[r].patch.limit, req[r].patch.offset) :
         FinishList(r, images)
    /\ UNCHANGED <<envVars, siteVars, storeVars, sessVars>>

GetFeatured(r) ==
    /\ FreeSlot(r)
    /\ req' = [req EXCEPT ![r] = [NoReq EXCEPT !.kind = "g_feat", !.pc = "g_feat"]]
    /\ hist' = NoHist
    /\ UNCHANGED <<envVars, siteVars, storeVars, sessVars, resp>>

\* const featuredImages = await storage.getFeaturedGalleryImages()
Gallery_featured(r) ==
    /\ At(r, "g_feat")
    /\ \E images \in getFeaturedGalleryImages : FinishList(r, images)
    /\ UNCHANGED <<envVars, siteVars, storeVars, sessVars>>

\* The galleries the reads are applied to: any images under the ids, each with
\* a display order and a featured flag.
Galleries ==
    UNION {[ids -> [id : ImageIds, order : 0..MaxOrder, isFeatured : BOOLEAN]] :
             ids \in SUBSET ImageIds}

InitGallery ==
    /\ impl \in {"mem", "db"}
    /\ serial = TRUE
    /\ users = SeedUsers(impl)
    /\ nextUserId = 2
    /\ tributes = <<>>
    /\ nextTributeId = 1
    /\ candles = EmptyBag
    /\ gallery \in {g \in Galleries : \A id \in DOMAIN g : g[id].id = id}
    /\ nextGalleryId = MaxImages + 1
    /\ settings = DefaultSettings
    /\ nextSettingId = 4
    /\ program = (1 :> DefaultProgram)
    /\ nextProgramId = 2
    /\ boot = BootDone
    /\ session = [s \in SessionIds |-> 0]
    /\ atLogin = [s \in SessionIds |-> FALSE]
    /\ req = [r \in Slots |-> NoReq]
    /\ resp = NoResp
    /\ hist = NoHist

NextGallery ==
    \E r \in Slots :
        \/ \E limitText, offsetText \in QueryTexts : GetGallery(r, limitText, offsetText)
        \/ Gallery_list(r)
        \/ GetFeatured(r)
        \/ Gallery_featured(r)

SpecGallery == InitGallery /\ [][NextGallery]_vars

\* The list holds each of the given images once, in ascending display order.
IsSortedListOf(list, ids) ==
    /\ {list[i] : i \in DOMAIN list} = ids
    /\ Len(list) = Cardinality(ids)
    /\ \A i \in 1..Len(list) - 1 :
          gallery[list[i]].order <= gallery[list[i + 1]].order

\* The list is what stands at positions from .. from + count - 1, counted
\* from 0, of a sorted list of the whole gallery.
IsPageOf(list, from, count) ==
    \E all \in [1..Cardinality(DOMAIN gallery) -> DOMAIN gallery] :
        /\ IsSortedListOf(all, DOMAIN gallery)
        /\ \A i \in 1..Len(all) :
              (from < i /\ i <= from + count) <=>
                  (i - from \in DOMAIN list /\ list[i - from] = all[i])
        /\ Len(list) = Cardinality({i \in 1..Len(all) : from < i /\ i <= from + count})

\* C25: the featured list holds exactly the images whose featured flag is set,
\* in ascending display order; the gallery list with a limit holds the images
\* at positions offset .. offset + limit - 1 of the whole gallery in ascending
\* display order, and without a limit that whole list.
C25_ListsSortedAndPaged ==
    [][\A r \in Slots :
         /\ Answers(r, {"g_feat"}) =>
               IsSortedListOf(resp'.items,
                              {id \in DOMAIN gallery : gallery[id].isFeatured})
         /\ Answers(r, {"g_list"}) =>
               IF req[r].patch.limit = {}
               THEN IsSortedListOf(resp'.items, DOMAIN gallery)
               ELSE \A n \in req[r].patch.limit :
                        IsPageOf(resp'.items, req[r].patch.offset, n)]_vars

\* Of two images out of display order the second page of one holds the one
\* with the higher order.
C25_Witness ==
    /\ DOMAIN gallery = {1, 2}
    /\ gallery[1].order > gallery[2].order
    /\ resp.kind = "g_list" /\ resp.status = 200
    /\ resp.items = <<1>>
\* ------------------------------------------- a toggle that does not finish
\* DatabaseStorage.updateTribute catches the error of a failed UPDATE and
\* returns undefined; addCandle and removeCandle do not look at what it
\* returns, so the toggle answers as if the count had been written.
UpdateTributeFails(r) ==
    /\ impl = "db"
    /\ req[r].pc \in {"add_upd", "rm_upd"}
    /\ Turn(r)
    /\ Finish(r, 200)
    /\ UNCHANGED <<envVars, siteVars, storeVars, sessVars>>

\* The server process stops while requests wait for the database: what they
\* had still to do is never done, the rows written so far stay.
Crash ==
    /\ impl = "db"
    /\ ~Quiet
    /\ req' = [r \in Slots |-> NoReq]
    /\ hist' = NoHist
    /\ UNCHANGED <<envVars, siteVars, storeVars, sessVars, resp>>

\* The tribute routes, one request at a time, with a failing count update and
\* a stopping server.
NextFail ==
    \/ \E r \in Slots : TributeStart(r) \/ TributeStep(r) \/ UpdateTributeFails(r)
    \/ Crash

SpecFail == InitSeq /\ [][NextFail]_vars

\* C24: when a candle toggle ends, by answering or by being stopped, the
\* candle write and the count update have both taken effect or neither has:
\* the tribute's candleCount equals the number of its candle records, as it
\* did when the toggle began.
C24_ToggleAllOrNothing ==
    [][\A r \in Slots, t \in TributeIds :
         (/\ req[r].kind = "toggle" /\ req'[r] = NoReq
          /\ t = req[r].tid /\ t \in DOMAIN tributes') =>
             tributes'[t].candleCount = NumCandles(t)']_vars
\* C26: once every request has finished, each candle record references a
\* tribute that exists; stated here for DatabaseStorage, whose deleteTribute
\* deletes the tribute's candle rows before the tribute row.
C26_NoCandleWithoutTribute ==
    (impl = "db" /\ Quiet) =>
        \A p \in BagToSet(candles) : p[2] \in DOMAIN tributes
\* C27: there is an administrator at the start, and role changes never leave
\* the accounts without one.
C27_AdminRemains == \E u \in DOMAIN users : users[u].isAdmin
\* C29: every stored account has its password in the form 'hash.salt', the
\* scrypt hash and the salt it was made with; none is stored as given.
C29_PasswordsHashed == \A u \in DOMAIN users : users[u].password.salt # NoSalt
\* ------------------------------------- the gallery methods, called as such
\* Image data of a create and bodies of an update: a new display order, and a
\* body that names an id of its own.
ImagePatch == [order |-> 2]
ImagePatchWithId == [id |-> 2, order |-> 0]

\* storage.createGalleryImage(imageData)
Call_createGalleryImage(r, image) ==
    /\ FreeSlot(r)
    /\ nextGalleryId <= MaxImages
    /\ req' = [req EXCEPT ![r] = [NoReq EXCEPT !.kind = "createGalleryImage",
                                         !.pc = "g_ins", !.patch = image]]
    /\ UNCHANGED <<envVars, siteVars, storeVars, sessVars, resp, hist>>

\* storage.updateGalleryImage(id, imageData), imageData being the request
\* body of PUT /api/gallery/:id as it came.
Call_updateGalleryImage(r, id, patch) ==
    /\ FreeSlot(r)
    /\ req' = [req EXCEPT ![r] = [NoReq EXCEPT !.kind = "updateGalleryImage",
                                         !.pc = "g_upd", !.userId = id,
                                         !.patch = patch]]
    /\ UNCHANGED <<envVars, siteVars, storeVars, sessVars, resp, hist>>

\* storage.deleteGalleryImage(id)
Call_deleteGalleryImage(r, id) ==
    /\ FreeSlot(r)
    /\ req' = [req EXCEPT ![r] = [NoReq EXCEPT !.kind = "deleteGalleryImage",
                                         !.pc = "g_del", !.userId = id]]
    /\ UNCHANGED <<envVars, siteVars, storeVars, sessVars, resp, hist>>

NextImages ==
    \E r \in Slots :
        \/ Call_createGalleryImage(r, AdminImage)
        \/ \E id \in ImageIds, patch \in {ImagePatch, ImagePatchWithId} :
             Call_updateGalleryImage(r, id, patch)
        \/ \E id \in ImageIds : Call_deleteGalleryImage(r, id)
        \/ Gallery_insert(r)
        \/ Gallery_update(r)
        \/ Gallery_delete(r)

SpecImages == InitStoreSeq /\ [][NextImages]_vars

\* C30: in MemStorage the image stored under map key k has id k, whatever
\* creates, updates and deletes came before, and the id counter is beyond
\* every key in use, so that no id is handed out twice.
C30_KeyIsId ==
    impl = "mem" =>
        \A k \in DOMAIN gallery : gallery[k].id = k /\ k < nextGalleryId
====
